---- MODULE Spec2Model ----
(***************************************************************************)
(* Model of generate_order_schedule (src/main.py): the day-stepped         *)
(* replenishment simulation, its future-arrivals list and the sorted       *)
(* schedule it returns.                                                    *)
(*                                                                         *)
(* Time is counted in ticks, TicksPerDay ticks to a day, so that a         *)
(* datetime with a time of day (datetime.today()) differs from the same    *)
(* day at midnight.  A formatted date ('%Y-%m-%d') is the one-element      *)
(* tuple <<day>>, the empty string '' is <<>>, and None is <<>> as well    *)
(* for the optional expected_arrival (<<t>> when a datetime t is given).   *)
(* Quantities are integers.  The identity fields Product, Variant and SKU  *)
(* are copied unchanged into every event and are left out of the events.   *)
(***************************************************************************)
EXTENDS Integers, Sequences, FiniteSets, TLC

(* ---- bounds of the explored inputs ------------------------------------ *)
TicksPerDay == 2
MaxDemand == 2
MaxLead == 2
MaxInventory == 3
MaxArrivalDay == 3

MaxCompleted == 1

(* ---- program constants ------------------------------------------------ *)
Horizon == 365

VARIABLES
    inputs,             \* the arguments of the call
    date,               \* the loop's current date
    current_inventory,
    future_arrivals,
    schedule,           \* the events in the order they were emitted
    pc,                 \* "loop" while the while loop runs, "done" on return
    result,             \* the returned frame
    crossed,            \* history: line 67's test has held on some day
    baseline            \* a second run, on the same inputs without the
                        \* in-transit quantity, followed up to its first order

loop_vars == <<inputs, date, current_inventory, future_arrivals, schedule, pc,
               result, crossed, baseline>>

(* st.session_state of the application (lines 102-108) and the handler the
   last run of the script entered *)
VARIABLES
    products,                   \* st.session_state.products
    schedules,                  \* st.session_state.schedules: SKU -> frame
    selected_product_details,   \* << >> is None
    event                       \* "" while no handler has run

board_vars == <<products, schedules, selected_product_details, event>>

vars == <<loop_vars, board_vars>>

Days(n) == n * TicksPerDay

(* date.strftime('%Y-%m-%d'): the time of day is dropped *)
strftime(t) == <<t \div TicksPerDay>>

(* pd.to_datetime of a formatted date: that day at midnight *)
to_datetime(s) == Days(s[1])

(* ---- derived parameters (lines 26-29) --------------------------------- *)
total_lead_time(in) == in.lead_time_days + in.shipping_time_days

safety_stock(in) == in.daily_demand * in.safety_stock_days

reorder_point_no_safety(in) == in.daily_demand * total_lead_time(in)

(* line 28 *)
reorder_point(in) == safety_stock(in) + (in.daily_demand * total_lead_time(in))

order_quantity(in) == (in.daily_demand * total_lead_time(in)) + safety_stock(in)

end_date_inclusive(in) == in.start_date + Days(Horizon + 1)

(* line 33 *)
end_date(in) == in.start_date + Days(Horizon)

(* lines 6-10: the tuple calculate_order_quantity returns *)
calculate_order_quantity(daily_demand, lead_time_days, shipping_time_days, safety_stock_days) ==
    << (daily_demand * (lead_time_days + shipping_time_days))
         + (daily_demand * safety_stock_days),
       lead_time_days + shipping_time_days,
       daily_demand * safety_stock_days >>

(* ---- the future-arrivals list (lines 36-43) --------------------------- *)
SeedArrivals(in) ==
    IF in.in_transit_quantity > 0 /\ in.expected_arrival # <<>>
    THEN << [arrival_date |-> in.expected_arrival[1],
             quantity |-> in.in_transit_quantity] >>
    ELSE << >>

(* line 47 *)
arrivals_today(fa, d) == SelectSeq(fa, LAMBDA a : a.arrival_date = d)

pending_orders_ignored(fa, d) == << >>

(* line 69 *)
pending_orders(fa, d) == SelectSeq(fa, LAMBDA a : a.arrival_date > d)

ListRemove_keep(fa, a) == fa

(* list.remove(x): drops the first element equal to x *)
RECURSIVE ListRemove(_, _)
ListRemove(fa, a) ==
    IF fa = << >> THEN << >>
    ELSE IF Head(fa) = a THEN Tail(fa)
    ELSE << Head(fa) >> \o ListRemove(Tail(fa), a)

(* lines 50-59 *)
ArrivalEvent(d, a) ==
    [ OrderDate |-> << >>,
      ArrivalDate |-> strftime(d),
      OrderQuantity |-> a.quantity,
      Event |-> "In Transit Arrival",
      Completed |-> FALSE ]

OrderArrivalDate_lead_only(in, d) == d + Days(in.lead_time_days)

(* line 73 *)
OrderArrivalDate(in, d) == d + Days(total_lead_time(in))

(* lines 74-83 *)
OrderEvent(in, d) ==
    [ OrderDate |-> strftime(d),
      ArrivalDate |-> strftime(OrderArrivalDate(in, d)),
      OrderQuantity |-> order_quantity(in),
      Event |-> "PO Placed",
      Completed |-> FALSE ]

(* lines 85-88 *)
OrderArrival(in, d) ==
    [ arrival_date |-> OrderArrivalDate(in, d), quantity |-> order_quantity(in) ]

RECURSIVE MatureArrivals_no_credit(_, _)
MatureArrivals_no_credit(s, todo) ==
    IF todo = << >> THEN s
    ELSE MatureArrivals_no_credit(
           [ s EXCEPT !.schedule = Append(@, ArrivalEvent(s.date, Head(todo))),
                      !.future_arrivals = ListRemove(@, Head(todo)) ],
           Tail(todo))

(* lines 48-61: the loop over arrivals_today, on the state
   s = [date, current_inventory, future_arrivals, schedule] *)
RECURSIVE MatureArrivals(_, _)
MatureArrivals(s, todo) ==
    IF todo = << >> THEN s
    ELSE MatureArrivals(
           [ s EXCEPT !.current_inventory = @ + Head(todo).quantity,
                      !.schedule = Append(@, ArrivalEvent(s.date, Head(todo))),
                      !.future_arrivals = ListRemove(@, Head(todo)) ],
           Tail(todo))

(* line 64 *)
ConsumeDemand(in, s) ==
    [ s EXCEPT !.current_inventory = @ - in.daily_demand ]

ShouldOrder_strict(in, s) ==
    /\ s.current_inventory < reorder_point(in)
    /\ pending_orders(s.future_arrivals, s.date) = << >>

(* lines 67-70 *)
ShouldOrder(in, s) ==
    /\ s.current_inventory <= reorder_point(in)
    /\ pending_orders(s.future_arrivals, s.date) = << >>

ReorderCheck_credit_at_placement(in, s) ==
    IF ShouldOrder(in, s)
    THEN [ s EXCEPT !.schedule = Append(@, OrderEvent(in, s.date)),
                    !.future_arrivals = Append(@, OrderArrival(in, s.date)),
                    !.current_inventory = @ + order_quantity(in) ]
    ELSE s

(* lines 67-88 *)
ReorderCheck(in, s) ==
    IF ShouldOrder(in, s)
    THEN [ s EXCEPT !.schedule = Append(@, OrderEvent(in, s.date)),
                    !.future_arrivals = Append(@, OrderArrival(in, s.date)) ]
    ELSE s

AdvanceDate_two_days(s) == [ s EXCEPT !.date = @ + Days(2) ]

(* line 90 *)
AdvanceDate(s) == [ s EXCEPT !.date = @ + Days(1) ]

(* lines 46-64: the state line 67 tests *)
AfterDebit(in, s) ==
    ConsumeDemand(in, MatureArrivals(s, arrivals_today(s.future_arrivals, s.date)))

DayBody_check_before_debit(in, s) ==
    AdvanceDate(
      ConsumeDemand(in,
        ReorderCheck(in,
          MatureArrivals(s, arrivals_today(s.future_arrivals, s.date)))))

(* lines 46-90: one iteration of the while loop *)
DayBody(in, s) == AdvanceDate(ReorderCheck(in, AfterDebit(in, s)))

(* lines 31-43: the state on entry to the loop *)
InitialState(in) ==
    [ date |-> in.start_date,
      current_inventory |-> in.current_inventory,
      future_arrivals |-> SeedArrivals(in),
      schedule |-> << >> ]

(* ---- the returned DataFrame (lines 93-99) ----------------------------- *)
(* line 95: the Arrival Date column becomes a timestamp *)
ParseArrival(ev) == [ ev EXCEPT !.ArrivalDate = to_datetime(@) ]

ParseArrivals(sched) == [ i \in 1..Len(sched) |-> ParseArrival(sched[i]) ]

(* merge of two sorted frames; rows of left precede rows of right with an equal key *)
RECURSIVE Merge(_, _)
Merge(left, right) ==
    IF left = << >> THEN right
    ELSE IF right = << >> THEN left
    ELSE LET m == (Len(left) + 1) \div 2
             k == Cardinality({ j \in 1..Len(right) :
                                 right[j].ArrivalDate < left[m].ArrivalDate })
         IN  Merge(SubSeq(left, 1, m - 1), SubSeq(right, 1, k))
               \o << left[m] >>
               \o Merge(SubSeq(left, m + 1, Len(left)), SubSeq(right, k + 1, Len(right)))

(* a sort that keeps rows with equal keys in the order of the unsorted frame *)
RECURSIVE stable_sort(_)
stable_sort(df) ==
    IF Len(df) <= 1 THEN df
    ELSE LET m == Len(df) \div 2
         IN  Merge(stable_sort(SubSeq(df, 1, m)), stable_sort(SubSeq(df, m + 1, Len(df))))

(* ---- numpy's argsort of kind 'quicksort', which line 96 runs ------------ *)
(* the comparison of two rows by their key *)
less(a, b) == a.ArrivalDate < b.ArrivalDate

Swap(arr, i, j) == [ arr EXCEPT ![i] = arr[j], ![j] = arr[i] ]

(* ranges of more than this many rows past their first are partitioned *)
SMALL_QUICKSORT == 16

(* floor(log2(n)) *)
RECURSIVE npy_get_msb(_)
npy_get_msb(n) == IF n <= 1 THEN 0 ELSE 1 + npy_get_msb(n \div 2)

(* insertion sort of a short range: x goes after the rows that are not greater *)
RECURSIVE insertion_sort(_, _)
insertion_sort(arr, n) ==
    IF n <= 1 THEN SubSeq(arr, 1, n)
    ELSE LET sorted == insertion_sort(arr, n - 1)
             x == arr[n]
         IN  SelectSeq(sorted, LAMBDA y : ~ less(x, y))
               \o << x >>
               \o SelectSeq(sorted, LAMBDA y : less(x, y))

(* heapsort's sift-down of tmp from place i in the heap arr[1..n] *)
RECURSIVE SiftDown(_, _, _, _)
SiftDown(arr, tmp, i, n) ==
    IF 2 * i > n THEN [ arr EXCEPT ![i] = tmp ]
    ELSE LET j == IF 2 * i < n /\ less(arr[2 * i], arr[2 * i + 1])
                  THEN 2 * i + 1 ELSE 2 * i
         IN  IF less(tmp, arr[j])
             THEN SiftDown([ arr EXCEPT ![i] = arr[j] ], tmp, j, n)
             ELSE [ arr EXCEPT ![i] = tmp ]

(* heapsort's first loop, for l from hi down to lo *)
RECURSIVE BuildHeap(_, _, _)
BuildHeap(arr, hi, lo) ==
    IF hi < lo THEN arr
    ELSE IF hi = lo THEN SiftDown(arr, arr[hi], hi, Len(arr))
    ELSE LET mid == (hi + lo) \div 2
             upper == BuildHeap(arr, hi, mid + 1)
         IN  IF Len(upper) = Len(arr) THEN BuildHeap(upper, mid, lo) ELSE upper

(* heapsort's second loop, for n from hi down to lo: the greatest row goes
   to place n and the row that was there is sifted down from the top *)
RECURSIVE DrainHeap(_, _, _)
DrainHeap(arr, hi, lo) ==
    IF hi < lo THEN arr
    ELSE IF hi = lo
         THEN SiftDown([ arr EXCEPT ![hi] = arr[1] ], arr[hi], 1, hi - 1)
    ELSE LET mid == (hi + lo) \div 2
             upper == DrainHeap(arr, hi, mid + 1)
         IN  IF Len(upper) = Len(arr) THEN DrainHeap(upper, mid, lo) ELSE upper

(* the heapsort a range falls back to when the depth limit is used up *)
aheapsort(arr) ==
    IF Len(arr) <= 1 THEN arr
    ELSE DrainHeap(BuildHeap(arr, Len(arr) \div 2, 1), Len(arr), 2)

(* the exchanges of the partition loop: rows at places I[k] and J[k], k in lo..hi *)
RECURSIVE ApplySwaps(_, _, _, _, _)
ApplySwaps(arr, I, J, lo, hi) ==
    IF hi < lo THEN arr
    ELSE IF hi = lo THEN Swap(arr, I[lo], J[lo])
    ELSE LET mid == (hi + lo) \div 2
             lower == ApplySwaps(arr, I, J, lo, mid)
         IN  IF Len(lower) = Len(arr) THEN ApplySwaps(lower, I, J, mid + 1, hi) ELSE lower

(* the median of the first, middle and last row, put at the last place but one *)
MedianOfThree(arr) ==
    LET n  == Len(arr)
        pm == 1 + ((n - 1) \div 2)
        a1 == IF less(arr[pm], arr[1]) THEN Swap(arr, pm, 1) ELSE arr
        a2 == IF less(a1[n], a1[pm]) THEN Swap(a1, n, pm) ELSE a1
        a3 == IF less(a2[pm], a2[1]) THEN Swap(a2, pm, 1) ELSE a2
    IN  Swap(a3, pm, n - 1)

(* the partition of a range around the pivot vp = arr[n - 1]: the place pi
   where the pivot ends and the rows after the exchanges.  pi stops at each
   place of I (rows not less than vp) going up, pj at each place of J (rows
   not greater than vp) going down, and they exchange until they meet. *)
Partition(arr) ==
    LET n    == Len(arr)
        vp   == arr[n - 1]
        I    == SelectSeq([ k \in 1..(n - 2) |-> k + 1 ], LAMBDA i : ~ less(arr[i], vp))
        Jup  == SelectSeq([ k \in 1..(n - 2) |-> k ], LAMBDA j : ~ less(vp, arr[j]))
        J    == [ k \in 1..Len(Jup) |-> Jup[Len(Jup) + 1 - k] ]
        m    == IF Len(I) < Len(J) THEN Len(I) ELSE Len(J)
        K    == 1 + Cardinality({ k \in 1..m : I[k] < J[k] })
        pi   == IF K = 1 \/ I[K] < J[K - 1] THEN I[K] ELSE J[K - 1]
    IN  [ pi |-> pi, arr |-> Swap(ApplySwaps(arr, I, J, 1, K - 1), pi, n - 1) ]

(* one range of the introsort: popped is TRUE for a range taken from the
   stack, where the depth limit is tested, FALSE for the smaller part the
   loop goes on with *)
RECURSIVE aquicksort_range(_, _, _)
aquicksort_range(arr, cdepth, popped) ==
    IF popped /\ cdepth < 0 THEN aheapsort(arr)
    ELSE IF Len(arr) - 1 > SMALL_QUICKSORT
    THEN LET p     == Partition(MedianOfThree(arr))
             n     == Len(arr)
             left  == SubSeq(p.arr, 1, p.pi - 1)
             right == SubSeq(p.arr, p.pi + 1, n)
             leftGoesOn == (p.pi - 1) < (n - p.pi)
         IN  aquicksort_range(left, cdepth - 1, ~ leftGoesOn)
               \o << p.arr[p.pi] >>
               \o aquicksort_range(right, cdepth - 1, leftGoesOn)
    ELSE insertion_sort(arr, Len(arr))

aquicksort(arr) == aquicksort_range(arr, 2 * npy_get_msb(Len(arr)), TRUE)

sort_values_skipped(df) == df

(* line 96: sort_values(by=['Arrival Date']), ascending, with the default
   kind='quicksort': the frame is reordered by numpy's argsort of the key
   column, which does not keep rows with equal keys in their order *)
sort_values(df) == aquicksort(df)

(* lines 93-99 *)
schedule_df(sched) ==
    IF sched = << >> THEN << >> ELSE sort_values(ParseArrivals(sched))

(* ---- inputs ----------------------------------------------------------- *)
Input(sd, inv, dd, lt, st, ss, itq, ea) ==
    [ start_date |-> sd, current_inventory |-> inv, daily_demand |-> dd,
      lead_time_days |-> lt, shipping_time_days |-> st, safety_stock_days |-> ss,
      in_transit_quantity |-> itq, expected_arrival |-> ea ]

StartDates == {0, 1}

ScenarioA == Input(0, 1000, 10, 20, 10, 5, 0, << >>)

ScenarioB == Input(0, 1000, 10, 20, 10, 5, 200, << Days(10) >>)

(* valid parameters, no in-transit quantity *)
GridInputs ==
    { Input(0, inv, dd, lt, st, ss, 0, << >>) :
        inv \in 0..MaxInventory, dd \in 0..MaxDemand, lt \in 0..MaxLead,
        st \in {0, 1}, ss \in {0, 1} }

(* a lead time that reaches the end of the horizon or passes it *)
LongLeadInputs ==
    { Input(0, inv, dd, lt, 1, 0, 0, << >>) :
        inv \in {0, MaxInventory}, dd \in {0, 1},
        lt \in {Horizon - 3, Horizon - 2, Horizon - 1, Horizon} }

(* one parameter negative *)
NegativeInputs ==
    { Input(0, inv, dd, lt, st, ss, itq, ea) :
        inv \in {0, MaxInventory}, dd \in {-1, 1}, lt \in {-1, 1}, st \in {-1, 0},
        ss \in {-1, 1}, itq \in {0, 1}, ea \in {<< Days(1) >>} }

(* expected arrival dates: none, before the start, on a day of the horizon,
   off the day grid, on the last day, at the end date and past it *)
ArrivalDates ==
    { << >>, << - Days(1) >>, << Days(Horizon - 1) >>, << Days(Horizon) >>,
      << Days(Horizon + MaxArrivalDay) >> }
      \cup { << t >> : t \in 0..Days(MaxArrivalDay) }

SeededInputs ==
    { Input(sd, inv, dd, lt, 0, 1, 2, ea) :
        sd \in StartDates, inv \in {0, MaxInventory}, dd \in {0, 1}, lt \in {0, MaxLead},
        ea \in ArrivalDates }

(* the first crossing of the reorder point on the last day of the horizon,
   and one day past it *)
BoundaryInputs ==
    { Input(0, inv, 1, 0, 0, 0, 0, << >>) : inv \in {Horizon, Horizon + 1} }

InputSet ==
    GridInputs \cup LongLeadInputs \cup NegativeInputs \cup SeededInputs
      \cup BoundaryInputs \cup {ScenarioA, ScenarioB}

WithoutInTransit(in) ==
    [ in EXCEPT !.in_transit_quantity = 0, !.expected_arrival = << >> ]

(* ---- the state machine ------------------------------------------------ *)
State == [ date |-> date, current_inventory |-> current_inventory,
           future_arrivals |-> future_arrivals, schedule |-> schedule ]

Init ==
    /\ inputs \in InputSet
    /\ date = InitialState(inputs).date
    /\ current_inventory = InitialState(inputs).current_inventory
    /\ future_arrivals = InitialState(inputs).future_arrivals
    /\ schedule = InitialState(inputs).schedule
    /\ pc = "loop"
    /\ result = << >>
    /\ crossed = FALSE
    /\ baseline = InitialState(WithoutInTransit(inputs))
    /\ products = << >>
    /\ schedules = [ k \in {} |-> << >> ]
    /\ selected_product_details = << >>
    /\ event = ""

(* lines 45-90 *)
DayStep ==
    /\ pc = "loop"
    /\ date < end_date(inputs)
    /\ LET s == DayBody(inputs, State) IN
         /\ date' = s.date
         /\ current_inventory' = s.current_inventory
         /\ future_arrivals' = s.future_arrivals
         /\ schedule' = s.schedule
    /\ crossed' = (crossed \/ AfterDebit(inputs, State).current_inventory
                                <= reorder_point(inputs))
    /\ baseline' = IF baseline.schedule = << >>
                   THEN DayBody(WithoutInTransit(inputs), baseline)
                   ELSE baseline
    /\ UNCHANGED <<inputs, pc, result, board_vars>>

(* lines 92-99 *)
Return ==
    /\ pc = "loop"
    /\ ~(date < end_date(inputs))
    /\ result' = schedule_df(schedule)
    /\ pc' = "done"
    /\ UNCHANGED <<inputs, date, current_inventory, future_arrivals, schedule,
                   crossed, baseline, board_vars>>

Next == DayStep \/ Return

Spec == Init /\ [][Next]_vars

(* line 45 false: the loop is over and lines 92-99 are next.  A return step
   changes pc, so this is ENABLED <<Return>>_vars *)
ReturnEnabled == pc = "loop" /\ ~(date < end_date(inputs))

(* the call runs to its end: the interpreter takes the next step of the loop
   (lines 45-90) and the return (lines 92-99) whenever one is possible.  The
   second condition is WF_vars(Return) with its ENABLED written as the guard *)
FairSpec ==
    /\ Spec
    /\ WF_vars(DayStep)
    /\ ([]<>(~ ReturnEnabled) \/ []<><<Return>>_vars)

(* ======================================================================= *)
(* The application: main (lines 111-362)                                   *)
(* ======================================================================= *)
(* the while loop of lines 45-90, run for at most n iterations from s *)
RECURSIVE RunDays(_, _, _)
RunDays(in, s, n) ==
    IF n = 0 THEN s
    ELSE IF n = 1 THEN (IF s.date < end_date(in) THEN DayBody(in, s) ELSE s)
    ELSE LET mid == RunDays(in, s, n \div 2)
         IN  IF mid.date < end_date(in) THEN RunDays(in, mid, n - (n \div 2)) ELSE mid

(* lines 36-90: the loop state when the loop is left *)
simulate(in) == RunDays(in, InitialState(in), Horizon)

(* the rows of the uploaded CSV (lines 120-131) *)
demand_df ==
    << [ variant_sku |-> "A", ending_quantity |-> MaxInventory,
         quantity_sold_per_day |-> 1 ],
       [ variant_sku |-> "B", ending_quantity |-> 1,
         quantity_sold_per_day |-> 0 ] >>

(* lines 157-163 *)
Details(row) ==
    [ variant_sku |-> row.variant_sku,
      current_inventory |-> row.ending_quantity,
      daily_demand |-> row.quantity_sold_per_day ]

(* lines 183-185: the values the form proposes *)
DefaultLeadTime == 45

DefaultShippingTime == 45

DefaultSafetyStockDays == 10

(* lines 183-197: what the form submits; expected_arrival is a date (a day
   number), given only with a positive in-transit quantity *)
FormInputs ==
    { [ lead_time |-> DefaultLeadTime,
        shipping_time |-> DefaultShippingTime,
        safety_stock_days |-> DefaultSafetyStockDays,
        in_transit_quantity |-> q,
        expected_arrival |-> IF q > 0 THEN << MaxArrivalDay >> ELSE << >> ] :
        q \in {0, MaxInventory} }

(* line 239: datetime.today() at the submission, at midnight or with a time of day *)
Todays == {0, 1}

(* lines 215-216, 220-234 *)
ProductRecord(details, form) ==
    LET coq == calculate_order_quantity(details.daily_demand, form.lead_time,
                                        form.shipping_time, form.safety_stock_days)
    IN  [ SKU |-> details.variant_sku,
          CurrentInventory |-> details.current_inventory,
          DailyDemand |-> details.daily_demand,
          ManufacturingLeadTime |-> form.lead_time,
          ShippingTime |-> form.shipping_time,
          SafetyStockDays |-> form.safety_stock_days,
          OrderQuantity |-> coq[1],
          TotalLeadTime |-> coq[2],
          SafetyStock |-> coq[3],
          InTransitQuantity |-> form.in_transit_quantity,
          ExpectedArrival |-> IF form.in_transit_quantity > 0
                              THEN form.expected_arrival ELSE << >> ]

(* lines 239-253: the arguments of the call; line 240 puts the expected
   arrival date at midnight *)
CallInputs(details, form, today) ==
    Input(today, details.current_inventory, details.daily_demand,
          form.lead_time, form.shipping_time, form.safety_stock_days,
          form.in_transit_quantity,
          IF form.in_transit_quantity > 0
          THEN << Days(form.expected_arrival[1]) >> ELSE << >>)

(* the calls the application can make, each simulated once *)
BoardCalls ==
    { CallInputs(Details(demand_df[r]), form, today) :
        r \in DOMAIN demand_df, form \in FormInputs, today \in Todays }

Simulated == [ in \in BoardCalls |-> simulate(in) ]

(* lines 13-99 *)
generate_order_schedule(in) == schedule_df(Simulated[in].schedule)

SKUs(prods) == { prods[i].SKU : i \in DOMAIN prods }

(* line 211 *)
AlreadyAdded(variant_sku, prods) == variant_sku \in SKUs(prods)

(* line 256: schedules[variant_sku] = schedule_df *)
Store(dict, key, df) ==
    [ k \in (DOMAIN dict) \cup {key} |-> IF k = key THEN df ELSE dict[k] ]

(* lines 308-309: del schedules[key] if key is present *)
Delete(dict, key) == [ k \in (DOMAIN dict) \ {key} |-> dict[k] ]

SetCompleted_all(df, idx, val) == [ i \in DOMAIN df |-> [ df[i] EXCEPT !.Completed = val ] ]

(* line 349: schedules[sku].at[idx, 'Completed'] = val *)
SetCompleted(df, idx, val) == [ df EXCEPT ![idx].Completed = val ]

(* lines 105-106: schedules = {} *)
EmptyDict == [ k \in {} |-> << >> ]

(* the number of rows marked completed on the whole board *)
RECURSIVE CompletedRows(_)
CompletedRows(keys) ==
    IF keys = {} THEN 0
    ELSE LET k == CHOOSE x \in keys : TRUE
         IN  Cardinality({ i \in DOMAIN schedules[k] : schedules[k][i].Completed })
               + CompletedRows(keys \ {k})

(* lines 102-108; no call of generate_order_schedule is running *)
BoardInit ==
    /\ products = << >>
    /\ schedules = EmptyDict
    /\ selected_product_details = << >>
    /\ event = ""
    /\ inputs = ScenarioA
    /\ date = InitialState(inputs).date
    /\ current_inventory = InitialState(inputs).current_inventory
    /\ future_arrivals = InitialState(inputs).future_arrivals
    /\ schedule = InitialState(inputs).schedule
    /\ pc = "idle"
    /\ result = << >>
    /\ crossed = FALSE
    /\ baseline = InitialState(WithoutInTransit(inputs))

(* Streamlit stops a run of the script at the next st call, and in releases
   where that is a yield point at the next access of st.session_state, once
   another widget event has asked for a rerun: the places where a handler
   can be left between two of its writes *)
SubmitStops == { "st.success", "st.info", "end" }

RemoveStops == { "st.session_state.schedules", "end" }

(* lines 142-166: the Refresh Details button *)
Refresh ==
    /\ \E r \in DOMAIN demand_df :
         selected_product_details' = << Details(demand_df[r]) >>
    /\ event' = "refresh"
    /\ UNCHANGED <<products, schedules, loop_vars>>

(* lines 197, 202-262: the Add Product button, enabled once details are
   selected.  The product is appended at line 220; a run stopped at line 236
   has stored no schedule, one stopped at line 259 has not reset the details *)
Submit ==
    /\ selected_product_details # << >>
    /\ \E form \in FormInputs : \E today \in Todays : \E stop \in SubmitStops :
         LET details == selected_product_details[1] IN
           IF AlreadyAdded(details.variant_sku, products)
           THEN UNCHANGED <<products, schedules, selected_product_details>>
           ELSE /\ products' = Append(products, ProductRecord(details, form))
                /\ schedules' =
                     IF stop = "st.success" THEN schedules
                     ELSE Store(schedules, details.variant_sku,
                                generate_order_schedule(CallInputs(details, form, today)))
                /\ selected_product_details' =
                     IF stop = "end" THEN << >> ELSE selected_product_details
    /\ event' = "submit"
    /\ UNCHANGED loop_vars

(* lines 295-310: the Remove button of one product.  Line 306 rewrites the
   product list; a run stopped at line 308 has not deleted the schedule *)
Remove ==
    /\ \E i \in DOMAIN products : \E stop \in RemoveStops :
         /\ products' = SelectSeq(products, LAMBDA prod : prod.SKU # products[i].SKU)
         /\ schedules' = IF stop = "end" THEN Delete(schedules, products[i].SKU)
                         ELSE schedules
    /\ event' = "remove"
    /\ UNCHANGED <<selected_product_details, loop_vars>>

(* lines 318-350: the Completed checkbox of one row of a displayed schedule *)
ToggleCompleted ==
    /\ \E i \in DOMAIN products :
         LET sku == products[i].SKU IN
           /\ sku \in DOMAIN schedules
           /\ \E idx \in DOMAIN schedules[sku] :
                /\ schedules[sku][idx].Completed
                     \/ CompletedRows(DOMAIN schedules) < MaxCompleted
                /\ schedules' = [ schedules EXCEPT
                                    ![sku] = SetCompleted(@, idx, ~ @[idx].Completed) ]
    /\ event' = "completed"
    /\ UNCHANGED <<products, selected_product_details, loop_vars>>

BoardNext == Refresh \/ Submit \/ Remove \/ ToggleCompleted

BoardSpec == BoardInit /\ [][BoardNext]_vars


(* ======================================================================= *)
(* Properties of the returned schedule                                     *)
(* ======================================================================= *)
IsOrder(e) == e.Event = "PO Placed"

IsArrival(e) == e.Event = "In Transit Arrival"

Returned == pc = "done"

StartDay == inputs.start_date \div TicksPerDay

(* day of a returned row's Arrival Date (a timestamp) and Order Date (text) *)
ArrDay(e) == e.ArrivalDate \div TicksPerDay

OrdDay(e) == e.OrderDate[1]

Orders == { i \in DOMAIN result : IsOrder(result[i]) }

Arrivals == { i \in DOMAIN result : IsArrival(result[i]) }

NoInTransit == inputs.in_transit_quantity = 0

(* index of the returned order with the earliest order date *)
FirstOrder == CHOOSE i \in Orders : \A j \in Orders : OrdDay(result[i]) <= OrdDay(result[j])

(* C1: in the returned schedule, of two orders with different order dates the
   later one is placed on or after the arrival date of the earlier one. *)
C1_SingleOutstandingOrder ==
    Returned =>
      \A i \in Orders : \A j \in Orders :
        OrdDay(result[i]) < OrdDay(result[j])
          => OrdDay(result[j]) >= ArrDay(result[i])

(* a run with a total lead time of two days or more whose second order is
   placed on the very day the first one arrives *)
C1_Witness ==
    /\ Returned
    /\ total_lead_time(inputs) >= 2
    /\ \E i \in Orders : \E j \in Orders :
         /\ OrdDay(result[i]) < OrdDay(result[j])
         /\ OrdDay(result[j]) = ArrDay(result[i])

(* C2 as stated: every returned event, order or arrival, has its arrival date
   within [startDate, startDate + 365 days). *)
C2_HorizonBound ==
    Returned =>
      \A i \in DOMAIN result :
        /\ StartDay <= ArrDay(result[i])
        /\ ArrDay(result[i]) < StartDay + Horizon

(* C2 amended: every arrival event has its arrival date within the horizon;
   every order has its order date within the horizon, and so an arrival date
   within [startDate + totalLeadTime, startDate + 365 days + totalLeadTime). *)
C2_HorizonBoundAmended ==
    Returned =>
      \A i \in DOMAIN result :
        IF IsArrival(result[i])
        THEN /\ StartDay <= ArrDay(result[i])
             /\ ArrDay(result[i]) < StartDay + Horizon
        ELSE /\ StartDay <= OrdDay(result[i])
             /\ OrdDay(result[i]) < StartDay + Horizon
             /\ StartDay + total_lead_time(inputs) <= ArrDay(result[i])
             /\ ArrDay(result[i]) < StartDay + Horizon + total_lead_time(inputs)

(* an order placed on the last day of the horizon that arrives after it, next
   to an arrival event on the last day *)
C2_Witness ==
    /\ Returned
    /\ \E i \in Orders :
         /\ OrdDay(result[i]) = StartDay + Horizon - 1
         /\ ArrDay(result[i]) >= StartDay + Horizon
    /\ \E i \in Arrivals : ArrDay(result[i]) = StartDay + Horizon - 1

Seq2Set(seq) == { seq[k] : k \in DOMAIN seq }

(* the precondition of C3 and the number of days it names *)
C3_Case ==
    /\ inputs.daily_demand > 0
    /\ NoInTransit
    /\ inputs.current_inventory > reorder_point(inputs)
    /\ (inputs.current_inventory - reorder_point(inputs)) % inputs.daily_demand = 0

C3_Days == (inputs.current_inventory - reorder_point(inputs)) \div inputs.daily_demand

C3_FirstOrderIs(day) ==
    /\ OrdDay(result[FirstOrder]) = StartDay + day
    /\ ArrDay(result[FirstOrder]) = StartDay + day + total_lead_time(inputs)
    /\ result[FirstOrder].OrderQuantity = reorder_point(inputs)

(* C3 as stated: the first order is placed (startingInventory - reorderPoint) /
   dailyDemand days after the start date; day 65 in Scenario A. *)
C3_FirstOrderDate ==
    (Returned /\ C3_Case /\ Orders # {}) => C3_FirstOrderIs(C3_Days)

(* C3 amended: the first order is placed one day earlier, on day
   (startingInventory - reorderPoint) / dailyDemand - 1 counted from the start
   date, when that day is within the horizon, and no order is placed when it is
   not; day 64 in Scenario A, with arrival 30 days later and quantity 350. *)
C3_FirstOrderDateAmended ==
    (Returned /\ C3_Case) =>
      /\ Orders # {} <=> C3_Days <= Horizon
      /\ Orders # {} => C3_FirstOrderIs(C3_Days - 1)
      /\ inputs = ScenarioA =>
           /\ OrdDay(result[FirstOrder]) = StartDay + 64
           /\ ArrDay(result[FirstOrder]) = StartDay + 64 + 30
           /\ result[FirstOrder].OrderQuantity = 350

C3_Witness ==
    /\ Returned
    /\ inputs = ScenarioA
    /\ C3_Case
    /\ Orders # {}
    /\ C3_Days = 65

(* the precondition of C4 *)
C4_Case ==
    /\ inputs.daily_demand = 0
    /\ inputs.current_inventory = 0
    /\ NoInTransit
    /\ inputs.lead_time_days >= 0
    /\ inputs.shipping_time_days >= 0
    /\ inputs.safety_stock_days >= 0

(* C4 as stated: zero demand and zero inventory give exactly one event, an
   order placed on the start date. *)
C4_ZeroDemandOneOrder ==
    (Returned /\ C4_Case) =>
      /\ Len(result) = 1
      /\ IsOrder(result[1])
      /\ OrdDay(result[1]) = StartDay

C4_Period == IF total_lead_time(inputs) >= 1 THEN total_lead_time(inputs) ELSE 1

(* C4 amended: an order of quantity 0 is placed on the start date and again on
   every day startDate + k * max(totalLeadTime, 1) of the horizon; for a total
   lead time of a day or more each order arriving within the horizon yields an
   arrival event of quantity 0 on its arrival date.  The order on the start
   date is the only event exactly when totalLeadTime >= 365. *)
C4_ZeroDemandAmended ==
    (Returned /\ C4_Case) =>
      /\ \E i \in Orders : OrdDay(result[i]) = StartDay
      /\ \A i \in DOMAIN result : result[i].OrderQuantity = 0
      /\ { OrdDay(result[i]) - StartDay : i \in Orders }
            = { d \in 0..(Horizon - 1) : d % C4_Period = 0 }
      /\ Cardinality(Orders) = Cardinality({ d \in 0..(Horizon - 1) : d % C4_Period = 0 })
      /\ { ArrDay(result[i]) - StartDay : i \in Arrivals }
            = { d \in 1..(Horizon - 1) :
                  total_lead_time(inputs) >= 1 /\ d % C4_Period = 0 }
      /\ Cardinality(Arrivals) = Cardinality({ ArrDay(result[i]) : i \in Arrivals })
      /\ Len(result) = 1 <=> total_lead_time(inputs) >= Horizon

(* zero demand, zero inventory and a total lead time that passes the horizon:
   the single order on the start date *)
C4_Witness ==
    /\ Returned
    /\ C4_Case
    /\ total_lead_time(inputs) >= Horizon
    /\ Len(result) = 1
    /\ IsOrder(result[1])

(* the inputs the specification rejects *)
InvalidParameters ==
    \/ inputs.daily_demand < 0
    \/ inputs.lead_time_days < 0
    \/ inputs.shipping_time_days < 0
    \/ inputs.safety_stock_days < 0
    \/ (inputs.in_transit_quantity > 0 /\ inputs.expected_arrival = << >>)

(* C5: on invalid parameters the call fails before any day step: the loop
   never advances the date and nothing is returned. *)
C5_InputValidation ==
    InvalidParameters => (date = inputs.start_date /\ pc # "done")
(* C6: an empty returned schedule means that on no day of the horizon the
   inventory after the demand debit was at or below the reorder point. *)
C6_EmptyScheduleMeaning ==
    (Returned /\ result = << >>) => ~crossed

(* the first order date of the run without the in-transit quantity *)
BaselineOrdered == baseline.schedule # << >>

BaselineFirstOrderDay == baseline.schedule[1].OrderDate[1]

HasSeed == SeedArrivals(inputs) # << >>

(* C7: in Scenario B the schedule has an arrival event of quantity 200 with an
   empty order date on startDate + 10 days and its first order is placed
   strictly later than the first order of Scenario A; for any inputs with an
   in-transit seed, the first order is not placed earlier than the first order
   of the same inputs without the seed. *)
C7_InTransitDelaysOrder ==
    Returned =>
      /\ inputs = ScenarioB =>
           /\ WithoutInTransit(inputs) = ScenarioA
           /\ \E i \in Arrivals :
                /\ ArrDay(result[i]) = StartDay + 10
                /\ result[i].OrderQuantity = 200
                /\ result[i].OrderDate = << >>
           /\ Orders # {}
           /\ BaselineOrdered
           /\ OrdDay(result[FirstOrder]) > BaselineFirstOrderDay
      /\ (HasSeed /\ Orders # {}) =>
           /\ BaselineOrdered
           /\ OrdDay(result[FirstOrder]) >= BaselineFirstOrderDay

(* Scenario B has run: Scenario A orders on day 64, Scenario B later *)
C7_Witness ==
    /\ Returned
    /\ inputs = ScenarioB
    /\ BaselineOrdered
    /\ BaselineFirstOrderDay = StartDay + 64
    /\ Orders # {}
    /\ OrdDay(result[FirstOrder]) > StartDay + 64

(* C8: every returned order arrives exactly totalLeadTime days after its order
   date and carries the order quantity. *)
C8_OrderArrivalAndQuantity ==
    Returned =>
      \A i \in Orders :
        /\ ArrDay(result[i]) = OrdDay(result[i]) + total_lead_time(inputs)
        /\ result[i].OrderQuantity = order_quantity(inputs)

(* orders placed, with a positive lead time, by a run that starts at a time
   of day other than midnight *)
C8_Witness ==
    /\ Returned
    /\ inputs.start_date % TicksPerDay # 0
    /\ inputs.lead_time_days > 0
    /\ Cardinality(Orders) >= 2

(* C9: the returned sequence is non-decreasing in arrival date. *)
C9_SortedByArrival ==
    Returned =>
      \A i \in 1..(Len(result) - 1) :
        result[i].ArrivalDate <= result[i + 1].ArrivalDate

(* a run that emitted an order after an arrival event with a later arrival
   date, so that the sort had to move a row *)
C9_Witness ==
    /\ Returned
    /\ \E i \in 1..(Len(schedule) - 1) :
         /\ schedule[i].ArrivalDate[1] > schedule[i + 1].ArrivalDate[1]
         /\ IsArrival(schedule[i])
         /\ IsOrder(schedule[i + 1])

EmittedOrders == { i \in DOMAIN schedule : IsOrder(schedule[i]) }

EmittedArrivals == { i \in DOMAIN schedule : IsArrival(schedule[i]) }

RECURSIVE CreditedBetween(_, _)
CreditedBetween(lo, hi) ==
    IF lo > hi THEN 0
    ELSE IF lo = hi
         THEN (IF IsArrival(schedule[lo]) THEN schedule[lo].OrderQuantity ELSE 0)
         ELSE CreditedBetween(lo, (lo + hi) \div 2)
                + CreditedBetween((lo + hi) \div 2 + 1, hi)

DaysElapsed == (date - inputs.start_date) \div TicksPerDay

(* an entry the loop could have matured: its arrival date is one of the dates
   the loop has already stepped through *)
Overdue(a) ==
    /\ inputs.start_date <= a.arrival_date
    /\ a.arrival_date < date
    /\ (a.arrival_date - inputs.start_date) % TicksPerDay = 0

(* C10: every queue entry is credited at most once and leaves the queue in the
   day step that matures it: each entry ever created (the seed and one per
   order) is either still queued or has produced exactly one arrival event;
   inventory is the starting inventory less the demand of the days stepped
   plus the quantity of each arrival event once; and an entry whose arrival
   date the loop has passed is queued only if its order was placed with no
   positive lead time, on or after the date it names. *)
C10_NoDoubleCredit ==
    /\ Cardinality(EmittedArrivals) + Len(future_arrivals)
         = Len(SeedArrivals(inputs)) + Cardinality(EmittedOrders)
    /\ current_inventory
         = inputs.current_inventory - DaysElapsed * inputs.daily_demand
             + CreditedBetween(1, Len(schedule))
    /\ \A k \in DOMAIN future_arrivals :
         Overdue(future_arrivals[k]) => total_lead_time(inputs) <= 0

(* the seed and a placed order have both matured and a further order is queued *)
C10_Witness ==
    /\ HasSeed
    /\ Cardinality(EmittedArrivals) >= 2
    /\ \E i \in EmittedArrivals :
         schedule[i].OrderQuantity = inputs.in_transit_quantity
    /\ \E i \in EmittedArrivals :
         schedule[i].OrderQuantity = order_quantity(inputs)
    /\ inputs.in_transit_quantity # order_quantity(inputs)
    /\ future_arrivals # << >>
(* ---- termination -------------------------------------------------------- *)
(* C13: the loop terminates after exactly 365 day steps.  The loop starts at
   startDate; every step taken inside the loop is a day step on a date before
   startDate + 365 days and moves the date forward by exactly one day, so the
   number of day steps taken is the number of days elapsed; the loop is left
   only on the date startDate + 365 days, without moving the date, and
   nothing happens after the return; and, the steps of the call being taken
   as long as one is possible, every run does return. *)
C13_Termination ==
    /\ date = inputs.start_date
    /\ [][ /\ (pc = "loop" /\ pc' = "loop") =>
                /\ DaysElapsed < Horizon
                /\ date' = date + Days(1)
           /\ (pc = "loop" /\ pc' # "loop") =>
                /\ pc' = "done"
                /\ DaysElapsed = Horizon
                /\ date' = date
           /\ pc # "done"
         ]_vars
    /\ <>(pc = "done" /\ DaysElapsed = Horizon)

(* a run that placed an order on every day and matured one on all but the
   first has returned after 365 steps *)
C13_Witness ==
    /\ Returned
    /\ DaysElapsed = Horizon
    /\ Cardinality(EmittedOrders) = Horizon
    /\ Cardinality(EmittedArrivals) = Horizon - 1

(* ---- the day step ------------------------------------------------------- *)
RECURSIVE SumQuantity(_)
SumQuantity(entries) ==
    IF entries = << >> THEN 0
    ELSE Head(entries).quantity + SumQuantity(Tail(entries))

(* the entries of the queue due on the current date *)
Due == SelectSeq(future_arrivals, LAMBDA a : a.arrival_date = date)

(* inventory of the current date after its credits and its demand debit *)
AvailableAfterDebit == current_inventory + SumQuantity(Due) - inputs.daily_demand

NoLaterEntry == \A k \in DOMAIN future_arrivals : future_arrivals[k].arrival_date <= date

(* the events the step from this state to the next one appends *)
OrdersEmitted ==
    { k \in (Len(schedule) + 1)..Len(schedule') : schedule'[k].Event = "PO Placed" }

(* C14: in every day step an order is emitted exactly when the inventory after
   that day's credits and debit is at or below the reorder point and no queue
   entry arrives later than that day; at most one order is emitted, it is dated
   that day, and the inventory the step leaves is the inventory after the
   debit. *)
C14_OrderTrigger ==
    [][ date' # date =>
          /\ (OrdersEmitted # {}) <=>
                (AvailableAfterDebit <= reorder_point(inputs) /\ NoLaterEntry)
          /\ Cardinality(OrdersEmitted) <= 1
          /\ \A k \in OrdersEmitted :
               /\ k = Len(schedule')
               /\ schedule'[k].OrderDate = strftime(date)
          /\ Len(schedule') = Len(schedule) + Len(Due) + Cardinality(OrdersEmitted)
          /\ current_inventory' = AvailableAfterDebit ]_vars

(* an order placed in the step that matured an arrival: the last two events
   are an arrival and an order of the same day, and the credit of that day
   was needed to stay above the reorder point *)
C14_Witness ==
    /\ pc = "loop"
    /\ Len(schedule) >= 2
    /\ IsArrival(schedule[Len(schedule) - 1])
    /\ IsOrder(schedule[Len(schedule)])
    /\ schedule[Len(schedule)].OrderDate = schedule[Len(schedule) - 1].ArrivalDate
    /\ schedule[Len(schedule) - 1].OrderQuantity > 0

(* ---- derived parameters ------------------------------------------------- *)
(* C16: the reorder point equals the order quantity, both
   dailyDemand * (leadTimeDays + shippingTimeDays) + dailyDemand *
   safetyStockDays, and calculate_order_quantity returns the order quantity,
   total lead time and safety stock that generate_order_schedule uses. *)
C16_DerivedParameters ==
    /\ reorder_point(inputs) = order_quantity(inputs)
    /\ order_quantity(inputs)
         = inputs.daily_demand * (inputs.lead_time_days + inputs.shipping_time_days)
             + inputs.daily_demand * inputs.safety_stock_days
    /\ calculate_order_quantity(inputs.daily_demand, inputs.lead_time_days,
                                inputs.shipping_time_days, inputs.safety_stock_days)
         = << order_quantity(inputs), total_lead_time(inputs), safety_stock(inputs) >>
    /\ \A k \in DOMAIN future_arrivals :
         future_arrivals[k] \in Seq2Set(SeedArrivals(inputs))
           \/ future_arrivals[k].quantity = reorder_point(inputs)

(* parameters that are all non-zero and different from each other, with an
   order in the queue *)
C16_Witness ==
    /\ inputs = ScenarioA
    /\ reorder_point(inputs) = 350
    /\ safety_stock(inputs) = 50
    /\ total_lead_time(inputs) = 30
    /\ future_arrivals # << >>
(* ---- order of rows with equal arrival dates ------------------------------ *)
(* C17: rows with equal arrival dates are returned in the order in which the
   simulation emitted them, so the returned frame is the emitted schedule
   sorted by arrival date with ties kept in emission order; in particular no
   arrival event is directly followed by the PO Placed row of the same
   arrival date and quantity. *)
C17_StableTies ==
    Returned =>
      /\ result = stable_sort(ParseArrivals(schedule))
      /\ \A i \in 1..(Len(result) - 1) :
           ~ ( /\ IsArrival(result[i])
               /\ IsOrder(result[i + 1])
               /\ result[i].ArrivalDate = result[i + 1].ArrivalDate
               /\ OrdDay(result[i + 1]) < ArrDay(result[i + 1]) )
(* ---- maturity of placed orders -------------------------------------------- *)
(* C18: with a total lead time >= 0, every returned PO Placed row whose
   arrival date is before startDate + 365 days has an arrival event of the
   same arrival date and quantity, and no queue entry of a placed order due
   before the end date is left in the queue. *)
C18_OrdersMature ==
    (Returned /\ total_lead_time(inputs) >= 0) =>
      /\ \A i \in Orders :
           ArrDay(result[i]) < StartDay + Horizon =>
             \E j \in Arrivals :
               /\ result[j].ArrivalDate = result[i].ArrivalDate
               /\ result[j].OrderQuantity = result[i].OrderQuantity
      /\ \A k \in DOMAIN future_arrivals :
           \/ future_arrivals[k] \in Seq2Set(SeedArrivals(inputs))
           \/ future_arrivals[k].arrival_date >= end_date(inputs)

(* ---- stock level ---------------------------------------------------------- *)
(* C19: with no in-transit seed, a daily demand >= 0, a total lead time >= 1
   and a starting inventory >= the reorder point, the inventory at the end of
   every day step is >= the safety stock, and so never negative. *)
C19_NoStockOut ==
    ( /\ ~HasSeed
      /\ inputs.daily_demand >= 0
      /\ total_lead_time(inputs) >= 1
      /\ inputs.current_inventory >= reorder_point(inputs)
      /\ date > inputs.start_date ) =>
        /\ current_inventory >= safety_stock(inputs)
        /\ current_inventory >= 0

(* ======================================================================= *)
(* Properties of the application's board                                   *)
(* ======================================================================= *)
(* C11: a step that toggles a Completed checkbox leaves the product list and
   the keys of the stored schedules unchanged and changes exactly one row of
   one stored schedule, and of that row only the Completed field. *)
C11_CompletedFrame ==
    [][ event' = "completed" =>
          /\ products' = products
          /\ DOMAIN schedules' = DOMAIN schedules
          /\ \E sku \in DOMAIN schedules : \E idx \in DOMAIN schedules[sku] :
               /\ schedules'[sku][idx].Completed # schedules[sku][idx].Completed
               /\ [ schedules'[sku][idx] EXCEPT !.Completed = schedules[sku][idx].Completed ]
                    = schedules[sku][idx]
               /\ \A k \in DOMAIN schedules :
                    /\ DOMAIN schedules'[k] = DOMAIN schedules[k]
                    /\ \A j \in DOMAIN schedules[k] :
                         (k # sku \/ j # idx) => schedules'[k][j] = schedules[k][j]
      ]_vars

(* a row has just been marked completed on a board of two products whose
   schedules both have rows, one of them several *)
C11_Witness ==
    /\ event = "completed"
    /\ Len(products) = 2
    /\ DOMAIN schedules = SKUs(products)
    /\ \A k \in DOMAIN schedules : schedules[k] # << >>
    /\ \E k \in DOMAIN schedules : \E idx \in DOMAIN schedules[k] :
         /\ schedules[k][idx].Completed
         /\ Len(schedules[k]) > 2

(* an Add Product run has just added a product and run to its end (only
   then are the selected details reset, line 262) *)
Added == event = "submit" /\ selected_product_details = << >> /\ products # << >>

(* C15: when a product has been added with a positive in-transit quantity
   and an expected arrival date within the horizon, the schedule stored for
   it has an In Transit Arrival row of that date and quantity. *)
C15_SeedOnApplicationPath ==
    LET prod == products[Len(products)] IN
      ( /\ Added
        /\ prod.InTransitQuantity > 0
        /\ prod.ExpectedArrival[1] >= 0
        /\ prod.ExpectedArrival[1] < Horizon ) =>
          /\ prod.SKU \in DOMAIN schedules
          /\ \E k \in DOMAIN schedules[prod.SKU] :
               LET row == schedules[prod.SKU][k] IN
                 /\ IsArrival(row)
                 /\ row.ArrivalDate = to_datetime(prod.ExpectedArrival)
                 /\ row.OrderQuantity = prod.InTransitQuantity

(* no two products of the list share a SKU, and every key of the stored
   schedules is the SKU of a product of the list *)
BoardConsistent(prods, scheds) ==
    /\ \A i \in DOMAIN prods : \A j \in DOMAIN prods :
         i # j => prods[i].SKU # prods[j].SKU
    /\ DOMAIN scheds \subseteq SKUs(prods)

(* C20: after every step the board is consistent; an add for a SKU already
   on the board changes neither the product list nor the schedules; a remove
   deletes one product and the schedule of its SKU and leaves the others as
   they were. *)
C20_BoardConsistency ==
    [][ /\ BoardConsistent(products', schedules')
        /\ ( /\ event' = "submit"
             /\ AlreadyAdded(selected_product_details[1].variant_sku, products) ) =>
             (products' = products /\ schedules' = schedules)
        /\ event' = "remove" =>
             \E i \in DOMAIN products :
               /\ products[i].SKU \notin SKUs(products')
               /\ products[i].SKU \notin DOMAIN schedules'
               /\ products' = SubSeq(products, 1, i - 1)
                                \o SubSeq(products, i + 1, Len(products))
               /\ \A k \in (DOMAIN schedules) \ {products[i].SKU} :
                    k \in DOMAIN schedules' /\ schedules'[k] = schedules[k]
      ]_vars
====
